---- MODULE Spec2Model ----
(***************************************************************************)
(* Model of sensors/sensor_vl53l0x.py: the VL53L0X time-of-flight driver.   *)
(*                                                                         *)
(* The driver is single-threaded and synchronous, so every public method   *)
(* (__init__, init, start, stop, read) is one action.  An action draws the *)
(* answers of the I2C device from small sets, computes the complete list   *)
(* of bus transactions the method issues (`log`) and the method's outcome  *)
(* (`call`), and updates the attributes of the object.                     *)
(*                                                                         *)
(* A log entry is one transport call:                                      *)
(*   op    "r" = i2c.readfrom_mem, "w" = i2c.writeto_mem                   *)
(*   reg   the register address                                            *)
(*   data  the bytes on the wire (most significant first)                  *)
(*   ok    FALSE when the transport raised instead of returning            *)
(*   n     repetition count: a polling loop that reads the same busy byte  *)
(*         n times in a row is recorded as one entry with that n           *)
(*   sleep milliseconds of time.sleep_ms() that follow each repetition     *)
(***************************************************************************)
EXTENDS Integers, Sequences, FiniteSets, TLC

VARIABLES
  obj,             \* TRUE once VL53L0X.__init__ has returned an object
  _stop_variable,  \* self._stop_variable (NoValue until init() assigns it)
  _started,        \* self._started
  log,             \* bus transactions of the most recent call
  call,            \* the most recent call: [op, arg, exc, ret]
  captured,        \* history: byte the device returned for the last read of 0x91
  start0Before,    \* history: the call before `call` was a start(0) that returned
  loop,            \* a polling loop executed poll by poll (specification SpecPoll)
  ctor,            \* what the constructor call was handed: [i2c, module_i2c]
  sensor_value,    \* Sensor_VL53L0X: self.value (NoValue is None)
  spadrun          \* the SPAD mask loop on its own (specification SpecSpad)

vars == <<obj, _stop_variable, _started, log, call, captured, start0Before, loop,
          ctor, sensor_value, spadrun>>

-----------------------------------------------------------------------------
(* Bounds of the model (not program constants).                            *)

\* A bus error may be injected at any of the first MaxFailAt transport calls
\* of a method.
MaxFailAt == 9

\* In the constructor of the base class, with one fixed prompt device per stop
\* variable, a bus error may be injected at any of the first MaxInitFailAt
\* transport calls of init(); a prompt init() issues 140.
MaxInitFailAt == 140

\* Largest period (ms) passed to start().
MaxPeriod == 100

-----------------------------------------------------------------------------
(* Register catalogue, lines 10-26.                                        *)

_IO_TIMEOUT == 1000
_SYSRANGE_START == 0
_EXTSUP_HV == 137
_MSRC_CONFIG == 96
_FINAL_RATE_RTN_LIMIT == 68
_SYSTEM_SEQUENCE == 1
_SPAD_REF_START == 79
_SPAD_ENABLES == 176
_REF_EN_START_SELECT == 182
_SPAD_NUM_REQUESTED == 78
_INTERRUPT_GPIO == 10
_INTERRUPT_CLEAR == 11
_GPIO_MUX_ACTIVE_HIGH == 132
_RESULT_INTERRUPT_STATUS == 19
_RESULT_RANGE_STATUS == 20
_OSC_CALIBRATE == 248
_MEASURE_PERIOD == 4

\* The register that holds the stop variable (literal 0x91 in the source).
STOP_VARIABLE_REG == 145

\* Python's None for an integer-valued attribute or return value.
NoValue == -1

-----------------------------------------------------------------------------
(* Integer helpers for Python's bit operators on non-negative integers.    *)

\* 1 << k
Pow2(k) == 2 ^ k

\* bool(x & (1 << k))
TestBit(x, k) == (x \div Pow2(k)) % 2 = 1

\* x | (1 << k)
SetBit(x, k) == IF TestBit(x, k) THEN x ELSE x + Pow2(k)

\* x & ~(1 << k)
ClearBit(x, k) == IF TestBit(x, k) THEN x - Pow2(k) ELSE x

-----------------------------------------------------------------------------
(* ustruct: the three formats the driver uses, 'B', '>H' and '6B'.         *)

calcsize(struct) ==
  CASE struct = "B" -> 1
    [] struct = ">H" -> 2
    [] struct = "6B" -> 6

\* TRUE when every value fits its field.
PackFits(struct, values) ==
  IF struct = ">H" THEN \A i \in 1..Len(values) : values[i] \in 0..65535
  ELSE \A i \in 1..Len(values) : values[i] \in 0..255

\* ustruct.pack(struct, *values): the bytes, most significant first.  A value
\* wider than its field keeps its low bits.
pack(struct, values) ==
  IF struct = ">H" THEN <<(values[1] \div 256) % 256, values[1] % 256>>
  ELSE [i \in 1..calcsize(struct) |-> values[i] % 256]

\* Variant of unpack: '>H' decoded least significant byte first.
unpack_le(struct, data) ==
  IF struct = ">H" THEN <<data[2] * 256 + data[1]>>
  ELSE [i \in 1..Len(data) |-> data[i]]

\* ustruct.unpack(struct, data): the tuple of values.
unpack(struct, data) ==
  IF struct = ">H" THEN <<data[1] * 256 + data[2]>>
  ELSE [i \in 1..calcsize(struct) |-> data[i]]

-----------------------------------------------------------------------------
(* Transport calls and the register codec, lines 42-69.                    *)

readfrom_mem(register, data) ==
  [op |-> "r", reg |-> register, data |-> data, ok |-> TRUE, n |-> 1, sleep |-> 0]

writeto_mem(register, data) ==
  [op |-> "w", reg |-> register, data |-> data, ok |-> TRUE, n |-> 1, sleep |-> 0]

\* _registers(register, struct=struct): `wire` is what the device answers.
_registers_get(register, struct, wire) ==
  [log |-> <<readfrom_mem(register, wire)>>, values |-> unpack(struct, wire)]

\* _registers(register, values, struct=struct)
_registers_set(register, values, struct) ==
  <<writeto_mem(register, pack(struct, values))>>

\* _register(register, struct=struct)
_register_get(register, struct, wire) ==
  LET r == _registers_get(register, struct, wire)
  IN  [log |-> r.log, value |-> r.values[1]]

\* _register(register, value, struct=struct)
_register_set(register, value, struct) ==
  _registers_set(register, <<value>>, struct)

\* _flag(register, bit, value) with value True or False: read-modify-write.
_flag(register, bit, value, wire) ==
  LET rd   == _register_get(register, "B", wire)
      data == IF value THEN SetBit(rd.value, bit) ELSE ClearBit(rd.value, bit)
  IN  rd.log \o _register_set(register, data, "B")

\* Variant of _config: the pairs are written last to first.
_config_reversed(config) ==
  [i \in 1..Len(config) |->
     [op |-> "w", reg |-> config[Len(config) + 1 - i][1],
      data |-> <<config[Len(config) + 1 - i][2] % 256>>,
      ok |-> TRUE, n |-> 1, sleep |-> 0]]

\* _config(*config): one single-byte write per (register, value) pair, in order.
_config(config) ==
  [i \in 1..Len(config) |-> _register_set(config[i][1], config[i][2], "B")[1]]

-----------------------------------------------------------------------------
(* Outcomes of a sequence of statements: the bus log and the exception.    *)

Ok(l) == [log |-> l, exc |-> "none"]

Raise(l, e) == [log |-> l, exc |-> e]

\* s[1]; s[2]; ... -- the statements run in order up to the first that raises.
RECURSIVE ConcatLogs(_, _)
ConcatLogs(s, k) == IF k = 0 THEN <<>> ELSE ConcatLogs(s, k - 1) \o s[k].log

\* Variant of Chain: a statement that raises does not end the sequence.
Chain_continue(s) ==
  LET raising == {i \in 1..Len(s) : s[i].exc # "none"}
      first   == IF raising = {} THEN Len(s)
                 ELSE CHOOSE i \in raising : \A j \in raising : i <= j
  IN  [log |-> ConcatLogs(s, Len(s)), exc |-> s[first].exc]

Chain(s) ==
  LET raising == {i \in 1..Len(s) : s[i].exc # "none"}
      last    == IF raising = {} THEN Len(s)
                 ELSE CHOOSE i \in raising : \A j \in raising : i <= j
  IN  [log |-> ConcatLogs(s, last), exc |-> s[last].exc]

-----------------------------------------------------------------------------
(* The bounded polling loops, lines 136-141, 153-158, 188-193, 194-199.    *)

\* The loop's break condition on the byte just read.
PollReady(kind, v) ==
  CASE kind = "spad"  -> v # 0            \* if self._register(0x83)
    [] kind = "intr"  -> v % 8 # 0        \* ... & 0x07
    [] kind = "start" -> v % 2 = 0        \* not ... & 0x01

\* What the device answers on poll number i (0-based): busy for the first
\* `delay` polls, ready afterwards.
PollBusyByte(kind) ==
  CASE kind = "spad" -> 0 [] kind = "intr" -> 248 [] kind = "start" -> 1

PollReadyByte(kind) ==
  CASE kind = "spad" -> 16 [] kind = "intr" -> 1 [] kind = "start" -> 0

PollAnswer(kind, delay, i) ==
  IF i < delay THEN PollBusyByte(kind) ELSE PollReadyByte(kind)

\* First i in lo..hi-1 whose answer satisfies the break condition, hi if none.
RECURSIVE FirstReady(_, _, _, _)
FirstReady(kind, delay, lo, hi) ==
  IF lo >= hi THEN hi
  ELSE IF hi = lo + 1
       THEN (IF PollReady(kind, PollAnswer(kind, delay, lo)) THEN lo ELSE hi)
       ELSE LET mid == (lo + hi) \div 2
                l   == FirstReady(kind, delay, lo, mid)
            IN  IF l < mid THEN l ELSE FirstReady(kind, delay, mid, hi)

\* How many polls a loop sees "busy" before the device reports "ready":
\* none, all but the last permitted poll, all of them.
PollDelays == {0, _IO_TIMEOUT - 1, _IO_TIMEOUT}

PollKinds == {"spad", "intr", "start"}

\* The loop variable `timeout` at the break (or _IO_TIMEOUT when the loop ran
\* out), tabulated once for the device behaviours the actions draw.
LoopExit ==
  [kind \in PollKinds, delay \in PollDelays |->
     FirstReady(kind, delay, 0, _IO_TIMEOUT)]

\* Variant of PollLoop: a loop that runs out continues with the next statement.
PollLoop_silent(register, kind, delay) ==
  LET first == LoopExit[kind, delay]
      busy  == IF first = 0 THEN <<>>
               ELSE <<[op |-> "r", reg |-> register,
                       data |-> <<PollBusyByte(kind)>>, ok |-> TRUE,
                       n |-> first, sleep |-> 1]>>
  IN  IF first = _IO_TIMEOUT
      THEN Ok(busy)
      ELSE Ok(busy \o <<[op |-> "r", reg |-> register,
                         data |-> <<PollAnswer(kind, delay, first)>>, ok |-> TRUE,
                         n |-> 1, sleep |-> 0]>>)

\* for timeout in range(_IO_TIMEOUT): if <ready>: break; time.sleep_ms(1)
\* else: raise TimeoutError()
PollLoop(register, kind, delay) ==
  LET first == LoopExit[kind, delay]
      busy  == IF first = 0 THEN <<>>
               ELSE <<[op |-> "r", reg |-> register,
                       data |-> <<PollBusyByte(kind)>>, ok |-> TRUE,
                       n |-> first, sleep |-> 1]>>
  IN  IF first = _IO_TIMEOUT
      THEN Raise(busy, "TimeoutError")
      ELSE Ok(busy \o _register_get(register, "B",
                                    <<PollAnswer(kind, delay, first)>>).log)

-----------------------------------------------------------------------------
(* Device answers drawn by the actions.                                    *)

\* Bytes the device returns for register 0x91.
StopBytes == {60, 195}

\* Byte the device returns for the reads of the read-modify-write flags.
FlagBytes == {0, 255}

\* Register 0x92 (count in the low 7 bits, aperture flag in bit 7) and the
\* 6-byte SPAD-enable bank read from 0xB0.
SpadCases ==
  { [info |-> 12,  map |-> <<255, 255, 255, 255, 255, 255>>],
    [info |-> 133, map |-> <<15, 240, 255, 1, 0, 128>>] }

InitDevices ==
  { [sv |-> s, flag |-> f, spadDelay |-> d1, spadInfo |-> c.info,
     spadMap |-> c.map, vhvDelay |-> d2, phaseDelay |-> d3] :
      s \in StopBytes, f \in FlagBytes, c \in SpadCases,
      d1 \in PollDelays, d2 \in PollDelays, d3 \in PollDelays }

\* Oscillator-calibration words (register 0xF8, big-endian).
OscWires == { <<0, 0>>, <<0, 1>>, <<4, 0>> }

Periods == {0, 1, MaxPeriod}

\* Distance words (register 0x1E, big-endian).
DistWires == { <<0, 100>>, <<18, 52>> }

ReadDevices ==
  { [startDelay |-> d1, intrDelay |-> d2, dist |-> w] :
      d1 \in PollDelays, d2 \in PollDelays, w \in DistWires }

-----------------------------------------------------------------------------
(* init(), lines 71-129, with _spad_info (131-149) and _calibrate (151-160) *)

\* Variant of SpadLoop: element i is bit i % 8 of its byte.
RECURSIVE SpadLoop_mod8(_, _, _, _, _)
SpadLoop_mod8(i, spad_map, spads_enabled, spad_count, is_aperture) ==
  IF i = 48 THEN spad_map
  ELSE LET byte == (i \div 8) + 1
           bit  == i % 8
       IN  IF (i < 12 /\ is_aperture) \/ spads_enabled >= spad_count
           THEN SpadLoop_mod8(i + 1,
                              [spad_map EXCEPT ![byte] = ClearBit(spad_map[byte], bit)],
                              spads_enabled, spad_count, is_aperture)
           ELSE IF TestBit(spad_map[byte], bit)
           THEN SpadLoop_mod8(i + 1, spad_map, spads_enabled + 1, spad_count, is_aperture)
           ELSE SpadLoop_mod8(i + 1, spad_map, spads_enabled, spad_count, is_aperture)

\* The for-loop of lines 90-94 from index i on; yields the final spad_map.
RECURSIVE SpadLoop(_, _, _, _, _)
SpadLoop(i, spad_map, spads_enabled, spad_count, is_aperture) ==
  IF i = 48 THEN spad_map
  ELSE LET byte == (i \div 8) + 1          \* spad_map[i // 8], 1-based here
           bit  == i \div 4                \* i >> 2
       IN  IF (i < 12 /\ is_aperture) \/ spads_enabled >= spad_count
           THEN SpadLoop(i + 1,
                         [spad_map EXCEPT ![byte] = ClearBit(spad_map[byte], bit)],
                         spads_enabled, spad_count, is_aperture)
           ELSE IF TestBit(spad_map[byte], bit)
           THEN SpadLoop(i + 1, spad_map, spads_enabled + 1, spad_count, is_aperture)
           ELSE SpadLoop(i + 1, spad_map, spads_enabled, spad_count, is_aperture)

\* The vendor tuning table, lines 96-116.
TuningTable == <<
    <<255, 1>>, <<0, 0>>, <<255, 0>>, <<9, 0>>, <<16, 0>>, <<17, 0>>, <<36, 1>>, <<37, 255>>,
    <<117, 0>>, <<255, 1>>, <<78, 44>>, <<72, 0>>, <<48, 32>>, <<255, 0>>, <<48, 9>>, <<84, 0>>,
    <<49, 4>>, <<50, 3>>, <<64, 131>>, <<70, 37>>, <<96, 0>>, <<39, 0>>, <<80, 6>>, <<81, 0>>,
    <<82, 150>>, <<86, 8>>, <<87, 48>>, <<97, 0>>, <<98, 0>>, <<100, 0>>, <<101, 0>>, <<102, 160>>,
    <<255, 1>>, <<34, 50>>, <<71, 20>>, <<73, 255>>, <<74, 0>>, <<255, 0>>, <<122, 10>>, <<123, 0>>,
    <<120, 33>>, <<255, 1>>, <<35, 52>>, <<66, 0>>, <<68, 255>>, <<69, 38>>, <<70, 5>>, <<64, 64>>,
    <<14, 6>>, <<32, 26>>, <<67, 64>>, <<255, 0>>, <<52, 3>>, <<53, 68>>, <<255, 1>>, <<49, 4>>,
    <<75, 9>>, <<76, 5>>, <<77, 4>>, <<255, 0>>, <<68, 0>>, <<69, 32>>, <<71, 8>>, <<72, 40>>,
    <<103, 0>>, <<112, 4>>, <<113, 1>>, <<114, 254>>, <<118, 0>>, <<119, 0>>, <<255, 1>>, <<13, 1>>,
    <<255, 0>>, <<128, 1>>, <<1, 248>>, <<255, 1>>, <<142, 1>>, <<0, 1>>, <<255, 0>>, <<128, 0>> >>

_spad_info(d) ==
  LET a == Ok(_config(<<<<128, 1>>, <<255, 1>>, <<0, 0>>, <<255, 6>>>>)
              \o _flag(131, 3, TRUE, <<d.flag>>)
              \o _config(<<<<255, 7>>, <<129, 1>>, <<128, 1>>, <<148, 107>>, <<131, 0>>>>))
      p == PollLoop(131, "spad", d.spadDelay)
      v == _register_get(146, "B", <<d.spadInfo>>)
      b == Ok(_config(<<<<131, 1>>>>)
              \o v.log
              \o _config(<<<<129, 0>>, <<255, 6>>>>)
              \o _flag(131, 3, FALSE, <<d.flag>>)
              \o _config(<<<<255, 1>>, <<0, 1>>, <<255, 0>>, <<128, 0>>>>))
      r == Chain(<<a, p, b>>)
  IN  [log |-> r.log, exc |-> r.exc,
       count |-> v.value % 128,               \* value & 0x7f
       is_aperture |-> TestBit(v.value, 7)]   \* bool(value & 0b10000000)

\* Variant of _calibrate: the range-start register is zeroed before the
\* interrupt is cleared.
_calibrate_swapped(vhv_init_byte, delay) ==
  Chain(<< Ok(_register_set(_SYSRANGE_START, SetBit(vhv_init_byte, 0), "B")),
           PollLoop(_RESULT_INTERRUPT_STATUS, "intr", delay),
           Ok(_register_set(_SYSRANGE_START, 0, "B")
              \o _register_set(_INTERRUPT_CLEAR, 1, "B")) >>)

\* lines 151-160; the first write carries 0x01 | vhv_init_byte.
_calibrate(vhv_init_byte, delay) ==
  Chain(<< Ok(_register_set(_SYSRANGE_START, SetBit(vhv_init_byte, 0), "B")),
           PollLoop(_RESULT_INTERRUPT_STATUS, "intr", delay),
           Ok(_register_set(_INTERRUPT_CLEAR, 1, "B")
              \o _register_set(_SYSRANGE_START, 0, "B")) >>)

\* Variant of StandardMode: register 0x91 is read after the three closing
\* writes.
StandardMode_late(wire) ==
  _config(<<<<136, 0>>, <<128, 1>>, <<255, 1>>, <<0, 0>>>>)
  \o _config(<<<<0, 1>>, <<255, 0>>, <<128, 0>>>>)
  \o _register_get(STOP_VARIABLE_REG, "B", wire).log

\* lines 73-76 ("I2C standard mode"): four writes, the read of 0x91 that is
\* assigned to self._stop_variable, three writes.
StandardMode(wire) ==
  _config(<<<<136, 0>>, <<128, 1>>, <<255, 1>>, <<0, 0>>>>)
  \o _register_get(STOP_VARIABLE_REG, "B", wire).log
  \o _config(<<<<0, 1>>, <<255, 0>>, <<128, 0>>>>)

\* Variant of MsrcLimits: both calls pass False.
MsrcLimits_clear(wire) ==
  _flag(_MSRC_CONFIG, 1, FALSE, wire)
  \o _flag(_MSRC_CONFIG, 4, FALSE, <<ClearBit(wire[1], 1)>>)

\* lines 77-79: two read-modify-writes of the MSRC config register, both with
\* value True.  The register holds what was written to it, so the second read
\* answers the byte of the first write.
MsrcLimits(wire) ==
  _flag(_MSRC_CONFIG, 1, TRUE, wire)
  \o _flag(_MSRC_CONFIG, 4, TRUE, <<SetBit(wire[1], 1)>>)

init(power2v8, d) ==
  LET head == Ok(_flag(_EXTSUP_HV, 0, power2v8, <<d.flag>>)
                 \o StandardMode(<<d.sv>>)
                 \o MsrcLimits(<<d.flag>>)
                 \o _register_set(_FINAL_RATE_RTN_LIMIT, 32, ">H")
                 \o _register_set(_SYSTEM_SEQUENCE, 255, "B"))
      info == _spad_info(d)
      spad == Ok(_registers_get(_SPAD_ENABLES, "6B", d.spadMap).log
                 \o _config(<<<<255, 1>>, <<_SPAD_REF_START, 0>>,
                              <<_SPAD_NUM_REQUESTED, 44>>, <<255, 0>>,
                              <<_REF_EN_START_SELECT, 180>>>>)
                 \o _registers_set(_SPAD_ENABLES,
                                   SpadLoop(0, unpack("6B", d.spadMap), 0,
                                            info.count, info.is_aperture), "6B"))
      tune == Ok(_config(TuningTable))
      intr == Ok(_register_set(_INTERRUPT_GPIO, 4, "B")
                 \o _flag(_GPIO_MUX_ACTIVE_HIGH, 4, FALSE, <<d.flag>>)
                 \o _register_set(_INTERRUPT_CLEAR, 1, "B"))
      seq1 == Ok(_register_set(_SYSTEM_SEQUENCE, 1, "B"))
      seq2 == Ok(_register_set(_SYSTEM_SEQUENCE, 2, "B"))
      fin  == Ok(_register_set(_SYSTEM_SEQUENCE, 232, "B"))
  IN  Chain(<< head, [log |-> info.log, exc |-> info.exc], spad, tune, intr,
               seq1, _calibrate(64, d.vhvDelay),
               seq2, _calibrate(0, d.phaseDelay), fin >>)

\* init() for every power2v8 and device behaviour, evaluated once.
InitRuns == [power2v8 \in BOOLEAN, d \in InitDevices |-> init(power2v8, d)]

\* Position of the read of 0x91 among init()'s transport calls (line 75):
\* two for the _flag of line 72, four for the _config of line 74, then it.
StopVariableAccess == 7

-----------------------------------------------------------------------------
(* start(), stop(), read(): lines 162-202.                                 *)

\* lines 163-165
StartPreamble(sv) ==
  _config(<<<<128, 1>>, <<255, 1>>, <<0, 0>>, <<STOP_VARIABLE_REG, sv>>,
            <<0, 1>>, <<255, 0>>, <<128, 0>>>>)

\* The value line 170 hands to pack('>H', ...).
StartPeriod(period, oscilator) ==
  IF oscilator # 0 THEN period * oscilator ELSE period

\* `strict` is the build's ustruct: TRUE when pack() raises on a value that
\* does not fit the field, FALSE when it keeps the low bits.
start(period, oscWire, strict, sv) ==
  IF period # 0
  THEN LET osc == _register_get(_OSC_CALIBRATE, ">H", oscWire)
           p   == StartPeriod(period, osc.value)
       IN  IF strict /\ ~PackFits(">H", <<p>>)
           THEN Raise(StartPreamble(sv) \o osc.log, "OverflowError")
           ELSE Ok(StartPreamble(sv) \o osc.log
                   \o _register_set(_MEASURE_PERIOD, p, ">H")
                   \o _register_set(_SYSRANGE_START, 4, "B"))
  ELSE Ok(StartPreamble(sv) \o _register_set(_SYSRANGE_START, 2, "B"))

\* Variant of stop: the mode-select/stop-variable sequence is left out.
stop_halt_only(sv) ==
  Ok(_register_set(_SYSRANGE_START, 1, "B"))

\* Variant of stop: the halt is followed by the seven writes of start().
stop_as_start(sv) ==
  Ok(_register_set(_SYSRANGE_START, 1, "B") \o StartPreamble(sv))

\* lines 177-180
stop(sv) ==
  Ok(_register_set(_SYSRANGE_START, 1, "B")
     \o _config(<<<<255, 1>>, <<0, 0>>, <<STOP_VARIABLE_REG, sv>>,
                  <<0, 1>>, <<255, 0>>>>))

\* lines 185-187
ReadPreamble(sv) ==
  _config(<<<<128, 1>>, <<255, 1>>, <<0, 0>>, <<STOP_VARIABLE_REG, sv>>,
            <<0, 1>>, <<255, 0>>, <<128, 0>>, <<_SYSRANGE_START, 1>>>>)

\* Variant of read: the test of self._started is inverted.
read_inverted(started, sv, d) ==
  LET pre  == Ok(IF started THEN ReadPreamble(sv) ELSE <<>>)
      p1   == PollLoop(_SYSRANGE_START, "start", d.startDelay)
      p2   == PollLoop(_RESULT_INTERRUPT_STATUS, "intr", d.intrDelay)
      v    == _register_get(_RESULT_RANGE_STATUS + 10, ">H", d.dist)
      tail == Ok(v.log \o _register_set(_INTERRUPT_CLEAR, 1, "B"))
      r    == Chain(<<pre, p1, p2, tail>>)
  IN  [log |-> r.log, exc |-> r.exc,
       ret |-> IF r.exc = "none" THEN v.value ELSE NoValue]

read(started, sv, d) ==
  LET pre  == Ok(IF ~started THEN ReadPreamble(sv) ELSE <<>>)
      p1   == PollLoop(_SYSRANGE_START, "start", d.startDelay)
      p2   == PollLoop(_RESULT_INTERRUPT_STATUS, "intr", d.intrDelay)
      v    == _register_get(_RESULT_RANGE_STATUS + 10, ">H", d.dist)
      tail == Ok(v.log \o _register_set(_INTERRUPT_CLEAR, 1, "B"))
      r    == Chain(<<pre, p1, p2, tail>>)
  IN  [log |-> r.log, exc |-> r.exc,
       ret |-> IF r.exc = "none" THEN v.value ELSE NoValue]

-----------------------------------------------------------------------------
(* Bus errors: the transport raises OSError on the f-th transport call of  *)
(* a method; the exception propagates, so the method ends there.           *)

\* Number of transport calls recorded in entries lo..hi of l.
RECURSIVE AccessesIn(_, _, _)
AccessesIn(l, lo, hi) ==
  IF lo > hi THEN 0
  ELSE IF lo = hi THEN l[lo].n
  ELSE LET mid == (lo + hi) \div 2
       IN  AccessesIn(l, lo, mid) + AccessesIn(l, mid + 1, hi)

NumAccesses(l) == AccessesIn(l, 1, Len(l))

Failed(e) ==
  [op |-> e.op, reg |-> e.reg, data |-> IF e.op = "r" THEN <<>> ELSE e.data,
   ok |-> FALSE, n |-> 1, sleep |-> 0]

\* Index of the entry of l that holds its f-th transport call, searched in
\* lo..hi (1 <= f <= NumAccesses(l)).
RECURSIVE FailEntry(_, _, _, _)
FailEntry(l, f, lo, hi) ==
  IF lo >= hi THEN lo
  ELSE LET mid == (lo + hi) \div 2
       IN  IF AccessesIn(l, 1, mid) >= f THEN FailEntry(l, f, lo, mid)
           ELSE FailEntry(l, f, mid + 1, hi)

\* The log of a method whose f-th transport call raised.
FailAt(l, f) ==
  CHOOSE r \in
    { SubSeq(l, 1, k - 1)
      \o (IF done > 0 THEN <<[l[k] EXCEPT !.n = done]>> ELSE <<>>)
      \o <<Failed(l[k])>> :
        \* k: the entry; done: its repetitions that returned
        <<k, done>> \in { <<e, f - 1 - AccessesIn(l, 1, e - 1)>> :
                           e \in {FailEntry(l, f, 1, Len(l))} } } : TRUE

CanFail(run, f) == f <= NumAccesses(run.log)

\* Variant of Inject: after the transport raised, the method is run again from
\* its first statement and its outcome is returned.
Inject_retry(run, f) ==
  IF f = 0 \/ ~CanFail(run, f) THEN run
  ELSE [run EXCEPT !.log = FailAt(run.log, f) \o run.log]

\* f = 0: no bus error.
Inject(run, f) ==
  IF f = 0 \/ ~CanFail(run, f) THEN run
  ELSE [run EXCEPT !.log = FailAt(run.log, f), !.exc = "OSError"]

\* What the caller passes as i2c, by the branch of lines 29-36 that takes it:
\* a str, an int, an object with a `readfrom` attribute, anything else.
Transports == {"str", "int", "readfrom", "other"}

\* Variant of SelectTransport: every argument is accepted as the transport.
SelectTransport_lax(i2c) == "none"

\* lines 29-36: the exception raised while self.i2c is chosen, "none" when it
\* was bound.  The module imports micropython, machine, ustruct and time only
\* (line 4), so the name I2C of lines 30 and 32 is unbound.
SelectTransport(i2c) ==
  CASE i2c \in {"str", "int"} -> "NameError"
    [] i2c = "readfrom"       -> "none"
    [] OTHER                  -> "ValueError"

\* VL53L0X.__init__ up to the return of self.init() (lines 29-39), for the
\* default power2v8.
VL53L0X__init__(i2c, d) ==
  IF SelectTransport(i2c) # "none" THEN Raise(<<>>, SelectTransport(i2c))
  ELSE InitRuns[TRUE, d]

PromptInit(d) == d.spadDelay = 0 /\ d.vhvDelay = 0 /\ d.phaseDelay = 0

\* Device behaviours drawn for an explicit re-run of init(): the answers are
\* prompt, or exactly one of the three loops never sees "ready".
ReInitDevices ==
  { d \in InitDevices :
      /\ d.flag = 0 /\ d.spadInfo = 12
      /\ {d.spadDelay, d.vhvDelay, d.phaseDelay} \subseteq {0, _IO_TIMEOUT}
      /\ Cardinality({k \in 1..3 :
            <<d.spadDelay, d.vhvDelay, d.phaseDelay>>[k] # 0}) <= 1 }

PromptRead(d) == d.startDelay = 0 /\ d.intrDelay = 0

\* Variant of StopVariableAfter: the attribute takes the byte of init()'s first
\* read (register 0x89) instead.
StopVariableAfter_first(old, l) ==
  IF Len(l) >= 1 /\ l[1].ok THEN l[1].data[1] ELSE old

\* self._stop_variable after init() ran with bus log l (line 75): assigned
\* when the read of 0x91 returned.
StopVariableAfter(old, l) ==
  IF Len(l) >= StopVariableAccess /\ l[StopVariableAccess].ok
  THEN unpack("B", l[StopVariableAccess].data)[1]
  ELSE old

\* History: the byte of the last read of 0x91 that returned, if any.
CapturedAfter(old, l) ==
  LET hits == {i \in 1..Len(l) : l[i].op = "r" /\ l[i].reg = STOP_VARIABLE_REG /\ l[i].ok}
  IN  IF hits = {} THEN old
      ELSE l[CHOOSE i \in hits : \A j \in hits : j <= i].data[1]

-----------------------------------------------------------------------------
(* The state machine.                                                      *)

NoCall == [op |-> "none", arg |-> 0, exc |-> "none", ret |-> NoValue]

NoLoop == [name |-> "none", state |-> "idle", timeout |-> 0, reads |-> 0,
           sleeps |-> 0, value |-> 0]

NoCtor == [i2c |-> "none", module_i2c |-> "none"]

NoSpad == [state |-> "idle", count |-> 0, is_aperture |-> FALSE,
           spad_map |-> <<>>, mask |-> <<>>]

Init ==
  /\ obj = FALSE
  /\ _stop_variable = NoValue
  /\ _started = FALSE
  /\ log = <<>>
  /\ call = NoCall
  /\ captured = NoValue
  /\ start0Before = FALSE
  /\ loop = NoLoop
  /\ ctor = NoCtor
  /\ sensor_value = NoValue
  /\ spadrun = NoSpad

\* The history variable start0Before after any call.
Start0Returned == call.op = "start" /\ call.arg = 0 /\ call.exc = "none"

\* VL53L0X(i2c), lines 28-40: the transport is selected, self.init() runs,
\* then self._started = False.  When a statement raises, the exception leaves
\* the constructor and no object exists.
Construct ==
  /\ ~obj
  /\ call.op = "none"
  /\ \E i2c \in Transports, d \in InitDevices, f \in 0..MaxInitFailAt :
       /\ f > 0 => PromptInit(d)
       /\ f > MaxFailAt => d \in ReInitDevices
       /\ \E full \in {VL53L0X__init__(i2c, d)} :
            /\ CanFail(full, f)
            /\ \E r \in {Inject(full, f)} :
                 /\ log' = r.log
                 /\ call' = [op |-> "__init__", arg |-> 1, exc |-> r.exc, ret |-> NoValue]
                 /\ obj' = (r.exc = "none")
                 /\ _stop_variable' = IF r.exc = "none"
                                      THEN StopVariableAfter(NoValue, r.log) ELSE NoValue
                 /\ captured' = IF r.exc = "none"
                                THEN CapturedAfter(NoValue, r.log) ELSE NoValue
                 /\ _started' = FALSE
                 /\ start0Before' = Start0Returned
                 /\ ctor' = [i2c |-> i2c, module_i2c |-> "unused"]
                 /\ UNCHANGED <<loop, sensor_value, spadrun>>

\* Variant of StartedAfterInit: init() puts the object back into single-shot
\* mode.
StartedAfterInit_reset(old) == old /\ FALSE

\* self._started after init(): no statement of lines 71-160 assigns it.
StartedAfterInit(old) == old

\* An explicit re-run of init(power2v8) on the object.
ReInit ==
  /\ obj
  /\ \E power2v8 \in BOOLEAN, d \in ReInitDevices, f \in 0..MaxFailAt :
       /\ f > 0 => PromptInit(d)
       /\ \E full \in {InitRuns[power2v8, d]} :
            /\ CanFail(full, f)
            /\ \E r \in {Inject(full, f)} :
                 /\ log' = r.log
                 /\ call' = [op |-> "init", arg |-> IF power2v8 THEN 1 ELSE 0,
                             exc |-> r.exc, ret |-> NoValue]
                 /\ _stop_variable' = StopVariableAfter(_stop_variable, r.log)
                 /\ captured' = CapturedAfter(captured, r.log)
                 /\ start0Before' = Start0Returned
                 /\ _started' = StartedAfterInit(_started)
                 /\ UNCHANGED <<obj, loop, ctor, sensor_value, spadrun>>

Start ==
  /\ obj
  /\ \E period \in Periods, oscWire \in OscWires, strict \in BOOLEAN,
        f \in 0..MaxFailAt :
       /\ period = 0 => (oscWire = <<0, 0>> /\ ~strict)
       /\ strict => ~PackFits(">H", <<StartPeriod(period, unpack(">H", oscWire)[1])>>)
       /\ \E full \in {start(period, oscWire, strict, _stop_variable)} :
            /\ CanFail(full, f)
            /\ \E r \in {Inject(full, f)} :
                 /\ log' = r.log
                 /\ call' = [op |-> "start", arg |-> period, exc |-> r.exc,
                             ret |-> NoValue]
                 /\ _started' = IF r.exc = "none" THEN TRUE ELSE _started
                 /\ start0Before' = Start0Returned
                 /\ UNCHANGED <<obj, _stop_variable, captured, loop, ctor, sensor_value, spadrun>>

Stop ==
  /\ obj
  /\ \E f \in 0..MaxFailAt :
       \E full \in {stop(_stop_variable)} :
         /\ CanFail(full, f)
         /\ \E r \in {Inject(full, f)} :
              /\ log' = r.log
              /\ call' = [op |-> "stop", arg |-> 0, exc |-> r.exc, ret |-> NoValue]
              /\ _started' = IF r.exc = "none" THEN FALSE ELSE _started
              /\ start0Before' = Start0Returned
              /\ UNCHANGED <<obj, _stop_variable, captured, loop, ctor, sensor_value, spadrun>>

Read ==
  /\ obj
  /\ \E d \in ReadDevices, f \in 0..MaxFailAt :
       /\ f > 0 => PromptRead(d)
       /\ \E full \in {read(_started, _stop_variable, d)} :
            /\ CanFail(full, f)
            /\ \E r \in {Inject(full, f)} :
                 /\ log' = r.log
                 /\ call' = [op |-> "read", arg |-> 0, exc |-> r.exc,
                             ret |-> IF r.exc = "none" THEN r.ret ELSE NoValue]
                 /\ start0Before' = Start0Returned
                 /\ UNCHANGED <<obj, _stop_variable, _started, captured, loop,
                                ctor, sensor_value, spadrun>>

Next == Construct \/ ReInit \/ Start \/ Stop \/ Read

Spec == Init /\ [][Next]_vars

-----------------------------------------------------------------------------
(* One polling loop, executed statement by statement.  The four loops are  *)
(* the same code over different registers and break conditions.            *)

Loops ==
  { [name |-> "_spad_info", reg |-> 131, kind |-> "spad"],
    [name |-> "_calibrate", reg |-> _RESULT_INTERRUPT_STATUS, kind |-> "intr"],
    [name |-> "read_start", reg |-> _SYSRANGE_START, kind |-> "start"],
    [name |-> "read_intr",  reg |-> _RESULT_INTERRUPT_STATUS, kind |-> "intr"] }

LoopKind(name) == (CHOOSE l \in Loops : l.name = name).kind

\* Variant of RangeExhausted: one iteration too many.
RangeExhausted_late(timeout) == timeout >= _IO_TIMEOUT

\* range(_IO_TIMEOUT) has no further value after `timeout`.
RangeExhausted(timeout) == timeout + 1 >= _IO_TIMEOUT

\* The statement before the loop has returned: `for` binds timeout = 0.
LoopEnter ==
  /\ loop.state = "idle"
  /\ \E l \in Loops :
       loop' = [name |-> l.name, state |-> "poll", timeout |-> 0, reads |-> 0,
                sleeps |-> 0, value |-> 0]
  /\ UNCHANGED <<obj, _stop_variable, _started, log, call, captured, start0Before,
               ctor, sensor_value, spadrun>>

\* if <condition on self._register(...)>: break
LoopPoll ==
  /\ loop.state = "poll"
  /\ \E v \in {PollBusyByte(LoopKind(loop.name)), PollReadyByte(LoopKind(loop.name))} :
       loop' = [loop EXCEPT !.reads = @ + 1, !.value = v,
                            !.state = IF PollReady(LoopKind(loop.name), v)
                                      THEN "break" ELSE "sleep"]
  /\ UNCHANGED <<obj, _stop_variable, _started, log, call, captured, start0Before,
               ctor, sensor_value, spadrun>>

\* time.sleep_ms(1), then the next value of range(), or the else: raise.
LoopSleep ==
  /\ loop.state = "sleep"
  /\ loop' = [loop EXCEPT !.sleeps = @ + 1,
                          !.timeout = IF RangeExhausted(loop.timeout) THEN @ ELSE @ + 1,
                          !.state = IF RangeExhausted(loop.timeout)
                                    THEN "TimeoutError" ELSE "poll"]
  /\ UNCHANGED <<obj, _stop_variable, _started, log, call, captured, start0Before,
               ctor, sensor_value, spadrun>>

\* The loop is over; the next one may begin.
LoopLeave ==
  /\ loop.state \in {"break", "TimeoutError"}
  /\ loop' = NoLoop
  /\ UNCHANGED <<obj, _stop_variable, _started, log, call, captured, start0Before,
               ctor, sensor_value, spadrun>>

NextPoll == LoopEnter \/ LoopPoll \/ LoopSleep \/ LoopLeave

\* Every transport call and every sleep returns, so a loop that can take its
\* next statement takes it.
SpecPoll == Init /\ [][NextPoll]_vars /\ WF_vars(LoopPoll) /\ WF_vars(LoopSleep)

-----------------------------------------------------------------------------
(* Sensor_VL53L0X, lines 204-217: the subclass that keeps the last reading. *)

\* What the module-level name i2c is when Sensor_VL53L0X.__init__ runs (line
\* 206 tests that name, not an argument): not bound, a machine.I2C, or any
\* other object.
ModuleI2C == {"unbound", "I2C", "other"}

\* lines 206-207: the exception raised by the test, "none" when it passes.
RequireI2C(module_i2c) ==
  CASE module_i2c = "unbound" -> "NameError"
    [] module_i2c = "I2C"     -> "none"
    [] OTHER                  -> "TypeError"

\* Sensor_VL53L0X.__init__ up to the return of super().__init__ (lines 206-208).
Sensor__init__(module_i2c, i2c, d) ==
  IF RequireI2C(module_i2c) # "none" THEN Raise(<<>>, RequireI2C(module_i2c))
  ELSE VL53L0X__init__(i2c, d)

\* Variant of SensorValueAfter: the attribute is assigned whatever the outcome
\* of the inherited read().
SensorValueAfter_always(old, r) == r.ret

\* line 211: self.value = super().read() -- the assignment happens when the
\* inherited read() returned.
SensorValueAfter(old, r) == IF r.exc = "none" THEN r.ret ELSE old

\* The property `values` (line 215).
Sensor_values == <<sensor_value>>

\* The property `values_dict` (line 218).
Sensor_values_dict == [d |-> sensor_value]

\* Sensor_VL53L0X(*args, **kwargs), lines 205-209.
SensorConstruct ==
  /\ ~obj
  /\ call.op = "none"
  /\ \E module_i2c \in ModuleI2C, i2c \in Transports, d \in InitDevices,
        f \in 0..MaxFailAt :
       /\ f > 0 => PromptInit(d)
       /\ \E full \in {Sensor__init__(module_i2c, i2c, d)} :
            /\ CanFail(full, f)
            /\ \E r \in {Inject(full, f)} :
                 /\ log' = r.log
                 /\ call' = [op |-> "__init__", arg |-> 1, exc |-> r.exc, ret |-> NoValue]
                 /\ obj' = (r.exc = "none")
                 /\ _stop_variable' = IF r.exc = "none"
                                      THEN StopVariableAfter(NoValue, r.log) ELSE NoValue
                 /\ captured' = IF r.exc = "none"
                                THEN CapturedAfter(NoValue, r.log) ELSE NoValue
                 /\ _started' = FALSE
                 /\ sensor_value' = NoValue
                 /\ start0Before' = Start0Returned
                 /\ ctor' = [i2c |-> i2c, module_i2c |-> module_i2c]
                 /\ UNCHANGED <<loop, spadrun>>

\* Sensor_VL53L0X.read(), lines 210-212.
SensorRead ==
  /\ obj
  /\ \E d \in ReadDevices, f \in 0..MaxFailAt :
       /\ f > 0 => PromptRead(d)
       /\ \E full \in {read(_started, _stop_variable, d)} :
            /\ CanFail(full, f)
            /\ \E r \in {Inject(full, f)} :
                 /\ log' = r.log
                 /\ call' = [op |-> "read", arg |-> 0, exc |-> r.exc,
                             ret |-> IF r.exc = "none" THEN r.ret ELSE NoValue]
                 /\ sensor_value' = SensorValueAfter(sensor_value, r)
                 /\ start0Before' = Start0Returned
                 /\ UNCHANGED <<obj, _stop_variable, _started, captured, loop,
                                ctor, spadrun>>

\* The subclass inherits start() and stop() unchanged; they decide whether
\* read() issues its preamble.  (A re-run of the inherited init() is part of
\* Spec.)
NextSensor == SensorConstruct \/ SensorRead \/ Start \/ Stop

SpecSensor == Init /\ [][NextSensor]_vars

-----------------------------------------------------------------------------
(* The SPAD mask loop of lines 89-94 on its own, for any count, aperture    *)
(* flag and bitmap.                                                        *)

\* Largest count drawn (the device reports value & 0x7f; the loop visits 48
\* elements).
MaxSpadCount == 49

\* Bitmaps read from the SPAD-enable bank.
SpadMaps ==
  { <<255, 255, 255, 255, 255, 255>>, <<0, 0, 0, 0, 0, 0>>,
    <<15, 240, 255, 1, 0, 128>>, <<170, 85, 170, 85, 170, 85>>,
    <<1, 2, 4, 8, 16, 32>>, <<254, 253, 251, 247, 239, 223>> }

InitSpad ==
  /\ obj = FALSE
  /\ _stop_variable = NoValue
  /\ _started = FALSE
  /\ log = <<>>
  /\ call = NoCall
  /\ captured = NoValue
  /\ start0Before = FALSE
  /\ loop = NoLoop
  /\ ctor = NoCtor
  /\ sensor_value = NoValue
  /\ \E c \in 0..MaxSpadCount, a \in BOOLEAN, m \in SpadMaps :
       spadrun = [state |-> "read", count |-> c, is_aperture |-> a,
                  spad_map |-> m, mask |-> <<>>]

\* lines 89-94: spads_enabled = 0, then the loop over range(48); `mask` is
\* the spad_map line 95 writes back.
SpadBuild ==
  /\ spadrun.state = "read"
  /\ spadrun' = [spadrun EXCEPT
                   !.state = "built",
                   !.mask = SpadLoop(0, spadrun.spad_map, 0, spadrun.count,
                                     spadrun.is_aperture)]
  /\ UNCHANGED <<obj, _stop_variable, _started, log, call, captured, start0Before,
                 loop, ctor, sensor_value>>

NextSpad == SpadBuild

SpecSpad == InitSpad /\ [][NextSpad]_vars

-----------------------------------------------------------------------------
(* Properties.                                                             *)

IsInit == call.op \in {"__init__", "init"}

IsW(e, register, data) == e.op = "w" /\ e.reg = register /\ e.data = data

IsR(e, register) == e.op = "r" /\ e.reg = register

Min2(a, b) == IF a <= b THEN a ELSE b

\* Index of the first read in l, Len(l) + 1 when l has none.
FirstRead(l) ==
  LET rs == {i \in 1..Len(l) : l[i].op = "r"}
  IN  IF rs = {} THEN Len(l) + 1 ELSE CHOOSE i \in rs : \A j \in rs : i <= j

\* C1: once an object exists the stop variable has been captured, and every
\* write to register 0x91 issued by start(), stop() or read() carries the byte
\* that the most recent init() read from register 0x91.
C1_StopVariableReused ==
  /\ obj => captured \in 0..255
  /\ call.op \in {"start", "stop", "read"} =>
       /\ obj /\ captured \in 0..255
       /\ \A i \in 1..Len(log) :
            (log[i].op = "w" /\ log[i].reg = 145) => log[i].data = <<captured>>

C1_Witness ==
  /\ call.op = "start" /\ call.exc = "none" /\ captured = 195
  /\ \E i \in 1..Len(log) : IsW(log[i], 145, <<195>>)

\* A poll of read() that ran out: 1000 reads of the range-start register with
\* bit 0 set, or 1000 reads of the interrupt-status register with the low
\* three bits clear.
ReadPollExhausted(e) ==
  /\ e.op = "r" /\ e.ok /\ e.n = 1000
  /\ \/ e.reg = 0 /\ e.data[1] % 2 = 1
     \/ e.reg = 19 /\ e.data[1] % 8 = 0

\* C2: when one of read()'s two polls exhausts its 1000 polls, read() raises
\* TimeoutError, returns nothing, and the exhausted poll is its last register
\* access (no distance read at 0x1E, no interrupt-clear write).
C2_ReadTimeout ==
  call.op = "read" =>
    \A i \in 1..Len(log) :
      ReadPollExhausted(log[i]) =>
        /\ call.exc = "TimeoutError"
        /\ call.ret = NoValue
        /\ i = Len(log)
        /\ \A j \in 1..Len(log) : ~IsR(log[j], 30) /\ log[j].reg # 11

C2_Witness ==
  /\ call.op = "read" /\ call.exc = "TimeoutError"
  /\ ReadPollExhausted(log[Len(log)]) /\ log[Len(log)].reg = 19

\* The mask init() wrote to the SPAD-enable bank, as recorded in l, together
\* with the count, the aperture flag and the bitmap the device reported.
SpadWrites(l) == {i \in 1..Len(l) : l[i].op = "w" /\ l[i].reg = 176 /\ l[i].ok}

SpadReport(l) ==
  LET info == l[CHOOSE i \in 1..Len(l) : IsR(l[i], 146)].data[1]
      bank == l[CHOOSE i \in 1..Len(l) : IsR(l[i], 176)].data
  IN  [count |-> info % 128, isAperture |-> info >= 128, bitmap |-> bank]

BitsSet(bytes) ==
  Cardinality({i \in 0..47 : TestBit(bytes[(i \div 8) + 1], i % 8)})

\* Originally-set bits that the positional rule does not exclude.
SpadAvailable(bitmap, isAperture) ==
  Cardinality({i \in 0..47 : /\ TestBit(bitmap[(i \div 8) + 1], i % 8)
                             /\ ~(isAperture /\ i < 12)})

\* C3: the number of bits left set in the mask init() writes back equals
\* min(count, number of originally-set bits not excluded by the positional
\* rule).
C3_SpadMaskBudget ==
  IsInit =>
    \A w \in SpadWrites(log) :
      LET rep == SpadReport(log)
      IN  BitsSet(log[w].data)
            = Min2(rep.count, SpadAvailable(rep.bitmap, rep.isAperture))

\* C4: the mask init() writes to the SPAD-enable bank never has more bits set
\* than the count the device reported.
C4_SpadMaskAtMostCount ==
  IsInit =>
    \A w \in SpadWrites(log) : BitsSet(log[w].data) <= SpadReport(log).count

\* The single-shot preamble of read() for stop variable sv.
SingleShotPreamble(sv) ==
  << <<128, 1>>, <<255, 1>>, <<0, 0>>, <<145, sv>>, <<0, 1>>, <<255, 0>>,
     <<128, 0>>, <<0, 1>> >>

\* The first k entries of l are the first k writes of `pairs`.
IsWritePrefix(l, k, pairs) ==
  /\ k <= Len(pairs)
  /\ \A i \in 1..k : IsW(l[i], pairs[i][1], <<pairs[i][2]>>)

\* What a read() that was called with self._started = started put on the bus.
ReadPreambleRule(started, sv, l, exc) ==
  LET k == FirstRead(l) - 1      \* writes before the first poll
  IN  IF started
      THEN k = 0 /\ l[1].reg = 0
      ELSE /\ IsWritePrefix(l, k, SingleShotPreamble(sv))
           /\ \/ k = 8 /\ (Len(l) > 8 \/ exc = "OSError")
              \/ k < 8 /\ k = Len(l) /\ ~l[k].ok /\ exc = "OSError"

\* C5: read() issues the single-shot preamble before its first poll exactly
\* when self._started is false at the call; when it is true no write precedes
\* the polls.
C5_PreambleIffNotStarted ==
  [][call'.op = "read" =>
       ReadPreambleRule(_started, captured, log', call'.exc)]_vars

C5_Witness ==
  /\ call.op = "read" /\ call.exc = "none" /\ _started
  /\ FirstRead(log) = 1

\* C6: after start(0) and then stop(), both returning normally, _started is
\* false and stop() has written the captured stop variable to 0x91 after its
\* write of 0x01 to the range-start register.
C6_StartThenStop ==
  (start0Before /\ call.op = "stop" /\ call.exc = "none") =>
    /\ _started = FALSE
    /\ \E i, j \in 1..Len(log) :
         /\ i < j
         /\ IsW(log[i], 0, <<1>>)
         /\ IsW(log[j], 145, <<captured>>)

C6_Witness ==
  /\ start0Before /\ call.op = "stop" /\ call.exc = "none"
  /\ ~_started

\* C7: start(period) with period # 0 reads the 16-bit big-endian oscillator
\* word osc from 0xF8, writes period * osc (period when osc = 0) to register
\* 0x04 as 2 bytes big-endian, then writes 0x04 to the range-start register.
C7_PeriodTimesOscillator ==
  (call.op = "start" /\ call.arg # 0 /\ call.exc # "OSError") =>
    /\ Len(log) = 10
    /\ IsR(log[8], 248) /\ Len(log[8].data) = 2
    /\ LET osc == log[8].data[1] * 256 + log[8].data[2]
       IN  /\ log[9].op = "w" /\ log[9].reg = 4 /\ Len(log[9].data) = 2
           /\ log[9].data[1] * 256 + log[9].data[2]
                = (IF osc # 0 THEN call.arg * osc ELSE call.arg)
    /\ IsW(log[10], 0, <<4>>)

\* C8: a read() whose polls succeed returns hi*256+lo of the two bytes read
\* from 0x1E and writes 0x01 to the interrupt-clear register exactly once,
\* after the distance read and as its last register access.
C8_ReadResult ==
  (call.op = "read" /\ call.exc = "none") =>
    LET k == Len(log)
    IN  /\ k >= 4
        /\ IsW(log[k], 11, <<1>>) /\ log[k].n = 1
        /\ IsR(log[k - 1], 30) /\ Len(log[k - 1].data) = 2 /\ log[k - 1].n = 1
        /\ call.ret = log[k - 1].data[1] * 256 + log[k - 1].data[2]
        /\ {i \in 1..k : log[i].reg = 11} = {k}
        /\ {i \in 1..k : log[i].reg = 30} = {k - 1}

C8_Witness ==
  /\ call.op = "read" /\ call.exc = "none" /\ call.ret = 100
  /\ LET k == Len(log)
     IN  /\ log[k - 1].data = <<0, 100>>
         /\ IsR(log[k - 2], 19) /\ log[k - 2].data = <<1>>
         /\ ~IsR(log[k - 3], 19)

\* Entries p+1 .. p+80 of l are the tuning table, one single-byte write each.
TuningRunAt(l, p) ==
  /\ p + Len(TuningTable) <= Len(l)
  /\ \A i \in 1..Len(TuningTable) :
       /\ IsW(l[p + i], TuningTable[i][1], <<TuningTable[i][2]>>)
       /\ l[p + i].n = 1

\* C9: a successful init() writes the tuning table exactly once, as one
\* contiguous run in the recorded order, right after the SPAD-enable mask
\* write and right before the interrupt-configuration writes.
C9_TuningTableOnce ==
  (IsInit /\ call.exc = "none") =>
    \E p \in 1..Len(log) :
      /\ SpadWrites(log) = {p}
      /\ {q \in 0..Len(log) : TuningRunAt(log, q)} = {p}
      /\ IsW(log[p + 81], 10, <<4>>)

C9_Witness ==
  /\ call.op = "__init__" /\ call.exc = "none"
  /\ \E p \in 1..Len(log) : TuningRunAt(log, p)

\* C10: a polling loop reads its register at most 1000 times, sleeps after
\* every unsuccessful poll, ends only by observing its condition or by
\* TimeoutError after the 1000th unsuccessful poll, and always ends.
C10_BoundedPolling ==
  /\ [](/\ loop.reads <= 1000
        /\ loop.state = "poll" => loop.sleeps = loop.reads
        /\ loop.state = "sleep" => loop.sleeps + 1 = loop.reads
        /\ loop.state = "break" =>
             PollReady(LoopKind(loop.name), loop.value)
        /\ loop.state = "TimeoutError" =>
             /\ loop.reads = 1000 /\ loop.sleeps = 1000
             /\ ~PollReady(LoopKind(loop.name), loop.value))
  /\ (loop.state \in {"poll", "sleep"}) ~> (loop.state \in {"break", "TimeoutError"})

C10_Witness ==
  loop.state = "TimeoutError" /\ loop.name = "_spad_info" /\ loop.reads = 1000

\* A poll of init() that ran out: 1000 reads of register 0x83 that answered
\* zero, or 1000 reads of the interrupt-status register with the low three
\* bits clear.
InitPollExhausted(e) ==
  /\ e.op = "r" /\ e.ok /\ e.n = 1000
  /\ \/ e.reg = 131 /\ e.data[1] = 0
     \/ e.reg = 19 /\ e.data[1] % 8 = 0

\* C11: when a poll inside init() exhausts its 1000 polls, init() raises
\* TimeoutError, the exhausted poll is its last register access, 0xE8 is never
\* written to the sequence-enable register, and when init() ran inside the
\* constructor no object exists afterwards.
C11_InitTimeout ==
  IsInit =>
    \A i \in 1..Len(log) :
      InitPollExhausted(log[i]) =>
        /\ call.exc = "TimeoutError"
        /\ i = Len(log)
        /\ \A j \in 1..Len(log) : ~IsW(log[j], 1, <<232>>)
        /\ call.op = "__init__" => ~obj

\* The phase calibration of the constructor's init() ran out.
C11_Witness ==
  /\ call.op = "__init__" /\ call.exc = "TimeoutError" /\ ~obj
  /\ InitPollExhausted(log[Len(log)]) /\ log[Len(log)].reg = 19
  /\ \E j \in 1..Len(log) : IsW(log[j], 1, <<2>>)

\* The exceptions raised by the constructors' own tests of their transport.
ConfigurationErrors == {"ValueError", "TypeError", "NameError"}

C13_BusErrorPropagates ==
  /\ \A i \in 1..Len(log) :
       ~log[i].ok =>
         /\ call.op \in {"__init__", "init", "start", "stop", "read"}
         /\ call.exc = "OSError"
         /\ log[i].n = 1
         /\ i = Len(log)
  /\ call.exc = "OSError" =>
       /\ Len(log) >= 1 /\ ~log[Len(log)].ok
       /\ call.ret = NoValue

\* The distance read of a continuous-mode read() raised.
C13_Witness ==
  /\ call.op = "read" /\ call.exc = "OSError" /\ _started
  /\ Len(log) = 3 /\ IsR(log[3], 30) /\ ~log[3].ok

\* Entries 3..6 of l are the four writes that open the standard-mode sequence.
StandardModeReset(l) ==
  /\ IsW(l[3], 136, <<0>>) /\ IsW(l[4], 128, <<1>>)
  /\ IsW(l[5], 255, <<1>>) /\ IsW(l[6], 0, <<0>>)

\* The three writes that close the standard-mode sequence.
ModeRestore == << <<0, 1>>, <<255, 0>>, <<128, 0>> >>

\* C14: init() reads register 0x91 at most once, and exactly once when it
\* gets that far: as its 7th transport call, right after the read and the
\* write of register 0x89 and the four writes 0x88=0, 0x80=1, 0xFF=1, 0x00=0,
\* and right before the writes 0x00=1, 0xFF=0, 0x80=0.
C14_StopVariableCapture ==
  IsInit =>
    LET reads == {i \in 1..Len(log) : IsR(log[i], 145)}
    IN  /\ reads \subseteq {7}
        /\ Len(log) >= 7 => reads = {7}
        /\ reads = {7} =>
             /\ IsR(log[1], 137) /\ log[2].op = "w" /\ log[2].reg = 137
             /\ StandardModeReset(log)
             /\ \A j \in 1..Len(log) : \A k \in 1..3 :
                  (j < 7 + k /\ j > 2) =>
                    ~IsW(log[j], ModeRestore[k][1], <<ModeRestore[k][2]>>)
             /\ \A k \in 1..3 :
                  Len(log) >= 7 + k =>
                    IsW(log[7 + k], ModeRestore[k][1], <<ModeRestore[k][2]>>)
        /\ call.exc \in {"none", "TimeoutError"} => reads = {7}

\* A re-run of init() that completed and read 0xC3 from register 0x91.
C14_Witness ==
  /\ call.op = "init" /\ call.exc = "none"
  /\ IsR(log[7], 145) /\ log[7].data = <<195>> /\ log[7].ok
  /\ IsW(log[8], 0, <<1>>)

\* A read that found its loop's device busy (a sleep follows it).
BusyPoll(e) == e.op = "r" /\ e.sleep = 1

NotBusyPoll(e) == ~BusyPoll(e)

\* The read of the interrupt-status register that ended a calibration poll.
IntrReady(e) == IsR(e, 19) /\ e.n = 1 /\ e.sleep = 0 /\ e.data[1] % 8 # 0

\* C15: a successful init() ends with sequence-enable=0x01, range-start=0x41,
\* reads of the interrupt status of which only the last has a low-3 bit set,
\* interrupt-clear=0x01, range-start=0x00, sequence-enable=0x02,
\* range-start=0x01, such reads again, interrupt-clear=0x01, range-start=0x00,
\* sequence-enable=0xE8, in this order and with nothing in between; the 0xE8
\* write is the last transport call and the only write of 0xE8.
C15_CalibrationTail ==
  (IsInit /\ call.exc = "none") =>
    LET s == SelectSeq(log, NotBusyPoll)
        k == Len(s)
    IN  /\ k >= 11
        /\ IsW(s[k - 10], 1, <<1>>)
        /\ IsW(s[k - 9], 0, <<65>>)
        /\ IntrReady(s[k - 8])
        /\ IsW(s[k - 7], 11, <<1>>)
        /\ IsW(s[k - 6], 0, <<0>>)
        /\ IsW(s[k - 5], 1, <<2>>)
        /\ IsW(s[k - 4], 0, <<1>>)
        /\ IntrReady(s[k - 3])
        /\ IsW(s[k - 2], 11, <<1>>)
        /\ IsW(s[k - 1], 0, <<0>>)
        /\ IsW(s[k], 1, <<232>>)
        /\ {i \in 1..Len(log) : IsW(log[i], 1, <<232>>)} = {Len(log)}
        /\ \A i \in 1..Len(log) :
             (BusyPoll(log[i]) /\ log[i].reg = 19) =>
               /\ log[i].data[1] % 8 = 0 /\ log[i].n < 1000
               /\ IntrReady(log[i + 1])
               /\ IsW(log[i - 1], 0, <<65>>) \/ IsW(log[i - 1], 0, <<1>>)

\* Both calibrations saw the device busy 999 times before it was ready.
C15_Witness ==
  /\ call.op = "__init__" /\ call.exc = "none"
  /\ \E i, j \in 1..Len(log) :
       /\ i < j
       /\ BusyPoll(log[i]) /\ log[i].reg = 19 /\ log[i].n = 999
       /\ IsW(log[i - 1], 0, <<65>>)
       /\ BusyPoll(log[j]) /\ log[j].reg = 19 /\ log[j].n = 999
       /\ IsW(log[j - 1], 0, <<1>>)

\* Transport calls 11..14 of init() are the two read-modify-writes of the
\* MSRC config register (0x60), and all four returned.
MsrcStepDone ==
  /\ IsInit /\ Len(log) >= 14
  /\ \A i \in 11..14 : log[i].ok /\ log[i].reg = 96
  /\ log[11].op = "r" /\ log[12].op = "w" /\ log[13].op = "r" /\ log[14].op = "w"

\* C16 as stated: the byte the step leaves in register 0x60 has bit 1 and bit
\* 4 cleared and every other bit as first read.
C16_MsrcBitsCleared ==
  MsrcStepDone =>
    \A b \in 0..7 :
      TestBit(log[14].data[1], b) = (b \notin {1, 4} /\ TestBit(log[11].data[1], b))

\* C16 (amended): the step sets bit 1 and bit 4 of register 0x60 to 1 by two
\* read-modify-writes (bit 1 first), each writing back the byte it read with
\* one more bit set; every other bit is left as first read.
C16_MsrcBitsSet ==
  /\ (IsInit /\ call.exc = "none") => MsrcStepDone
  /\ MsrcStepDone =>
       /\ log[12].data = <<SetBit(log[11].data[1], 1)>>
       /\ log[14].data = <<SetBit(log[13].data[1], 4)>>
       /\ \A b \in 0..7 :
            TestBit(log[14].data[1], b) = (b \in {1, 4} \/ TestBit(log[11].data[1], b))

\* The register read 0x00 and was left at 0x12.
C16_Witness ==
  /\ call.op = "__init__" /\ MsrcStepDone
  /\ log[11].data = <<0>> /\ log[12].data = <<2>>
  /\ log[13].data = <<2>> /\ log[14].data = <<18>>

\* The writes of l, as (register, byte) pairs; l holds single-byte writes only.
WritePairs(l) == [i \in 1..Len(l) |-> <<l[i].reg, l[i].data[1]>>]

\* The seven writes start() issues before its trigger.
StartSequence(sv) ==
  << <<128, 1>>, <<255, 1>>, <<0, 0>>, <<145, sv>>, <<0, 1>>, <<255, 0>>,
     <<128, 0>> >>

\* What stop() puts on the bus: the halt, then five writes.
StopSequence(sv) ==
  << <<0, 1>>, <<255, 1>>, <<0, 0>>, <<145, sv>>, <<0, 1>>, <<255, 0>> >>

\* C17 as stated: a stop() that completed wrote 0x01 to the range-start
\* register and then the seven writes of start()'s sequence (0x80=1, 0xFF=1,
\* 0x00=0, 0x91=stop variable, 0x00=1, 0xFF=0, 0x80=0), and started is false.
C17_StopReplaysStart ==
  (call.op = "stop" /\ call.exc = "none") =>
    /\ \A i \in 1..Len(log) : log[i].op = "w"
    /\ WritePairs(log) = << <<0, 1>> >> \o StartSequence(_stop_variable)
    /\ ~_started

\* C17 (amended): stop() writes 0x01 to the range-start register and then
\* 0xFF=1, 0x00=0, 0x91=stop variable, 0x00=1, 0xFF=0 -- start()'s sequence
\* without its first and last write (0x80=1, 0x80=0) -- and sets started to
\* false after the last of these writes returned; a stop() that a bus error
\* ends has issued a prefix of these writes and leaves started as it was.
C17_StopSequence ==
  [][call'.op = "stop" =>
       /\ \A i \in 1..Len(log') : log'[i].op = "w" /\ log'[i].n = 1
       /\ Len(log') <= 6
       /\ WritePairs(log') = SubSeq(StopSequence(_stop_variable), 1, Len(log'))
       /\ call'.exc = "none" => (Len(log') = 6 /\ ~_started')
       /\ call'.exc # "none" => (_started' = _started)]_vars

\* stop() completed on an object whose stop variable is 0xC3.
C17_Witness ==
  /\ call.op = "stop" /\ call.exc = "none" /\ ~_started
  /\ WritePairs(log) = StopSequence(195)

\* C18: self.value of the subclass is None until a read() returns, and every
\* call leaves it as it was except a read() that returns, which stores the
\* value it returns -- so it always is the result of the most recent read()
\* that returned; `values` is the one-element list of it and `values_dict`
\* maps 'd' to it.  A read() that raises TimeoutError or OSError leaves it
\* unchanged.
C18_SensorValue ==
  /\ sensor_value = NoValue
  /\ [][/\ sensor_value' = IF call'.op = "read" /\ call'.exc = "none"
                            THEN call'.ret ELSE sensor_value
        /\ (call'.op = "read" /\ call'.exc = "none") =>
             call'.ret = log'[Len(log') - 1].data[1] * 256 + log'[Len(log') - 1].data[2]
        /\ Sensor_values' = <<sensor_value'>>
        /\ Len(Sensor_values') = 1
        /\ DOMAIN Sensor_values_dict' = {"d"}
        /\ Sensor_values_dict'.d = sensor_value']_vars

\* A read() timed out after an earlier read() had returned 100.
C18_Witness ==
  /\ call.op = "read" /\ call.exc = "TimeoutError" /\ call.ret = NoValue
  /\ sensor_value = 100 /\ Sensor_values = <<100>> /\ Sensor_values_dict.d = 100

\* C19: self._started is false when the constructor returns; afterwards only
\* a start() that returned (every transport call done, the trigger write
\* last) makes it true and only a stop() that returned makes it false; read(),
\* a re-run of init(), and a start() or stop() that raised leave it as it
\* was.  So a read() that follows start(0) and a re-run of init() begins with
\* its first poll, without the single-shot preamble.
C19_StartedFlag ==
  /\ _started = FALSE
  /\ [][/\ _started' = CASE call'.op = "__init__" -> FALSE
                          [] call'.op = "start" /\ call'.exc = "none" -> TRUE
                          [] call'.op = "stop" /\ call'.exc = "none" -> FALSE
                          [] OTHER -> _started
        /\ (call'.op \in {"start", "stop"} /\ call'.exc = "none") =>
             /\ \A i \in 1..Len(log') : log'[i].ok
             /\ log'[Len(log')].op = "w"
             /\ log'[Len(log')].reg = (IF call'.op = "start" THEN 0 ELSE 255)
        /\ (call.op = "init" /\ start0Before /\ call'.op = "read") =>
             /\ _started
             /\ IsR(log'[1], 0)
             /\ \A i \in 1..Len(log') : log'[i].op # "w" \/ log'[i].reg = 11]_vars

\* init() was re-run right after a start(0) that returned, and the object is
\* still in continuous mode.
C19_Witness ==
  /\ call.op = "init" /\ call.exc = "none" /\ start0Before /\ _started /\ obj

\* C20: the mask the SPAD loop builds has no bit set that the bitmap read had
\* clear; in byte k (0-based) only bits 2k and 2k+1 -- the values of i >> 2
\* for the elements 8k..8k+7 -- can differ from the bitmap, so bytes 4 and 5
\* (elements 32..47, i >> 2 >= 8) are written back as read.  With the aperture
\* flag and a count the loop cannot reach, exactly bits 0 and 1 of byte 0 and
\* bit 2 of byte 1 (elements 0..11) are cleared.
C20_SpadMaskOnlyClears ==
  spadrun.state = "built" =>
    /\ Len(spadrun.mask) = 6
    /\ \A k \in 0..5 : \A b \in 0..7 :
         /\ TestBit(spadrun.mask[k + 1], b) => TestBit(spadrun.spad_map[k + 1], b)
         /\ b \notin {i \div 4 : i \in (8 * k)..(8 * k + 7)} =>
              TestBit(spadrun.mask[k + 1], b) = TestBit(spadrun.spad_map[k + 1], b)
    /\ spadrun.mask[5] = spadrun.spad_map[5]
    /\ spadrun.mask[6] = spadrun.spad_map[6]
    /\ (spadrun.is_aperture /\ spadrun.count >= 48) =>
         spadrun.mask =
           [spadrun.spad_map EXCEPT
              ![1] = ClearBit(ClearBit(spadrun.spad_map[1], 0), 1),
              ![2] = ClearBit(spadrun.spad_map[2], 2)]

\* Count 12, not aperture, every bit set: bits 3 of byte 1, 4-5 of byte 2 and
\* 6-7 of byte 3 are cleared, bytes 4 and 5 stay 0xFF.
C20_Witness ==
  /\ spadrun.state = "built" /\ spadrun.count = 12 /\ ~spadrun.is_aperture
  /\ spadrun.spad_map = <<255, 255, 255, 255, 255, 255>>
  /\ spadrun.mask = <<255, 247, 207, 63, 255, 255>>

====
